---- MODULE Spec2Model ----
(***************************************************************************)
(* Revisioned tuple store, watch (change-feed) engine and schema write     *)
(* path of the postgres datastore and the v1alpha1 schema service.         *)
(***************************************************************************)
EXTENDS Integers, Sequences, FiniteSets, TLC

VARIABLES
    rows,            \* table `tuple`: set of stored rows
    txn,             \* the transaction counter (newest committed transaction)
    ctx,             \* the watch caller's context: "active", "canceled", "deadline"
    bufLen,          \* pgd.watchBufferLength
    pc,              \* position of the watch goroutine
    start,           \* afterRevision handed to Watch
    cursor,          \* currentTxn of the watch loop
    newRev,          \* newRevision inside loadChanges
    staged,          \* stagedUpdates still to be written to the channel
    emitted,         \* every record sent on `updates`, in order
    nRead,           \* how many records the consumer has received
    errs,            \* content of the `errors` channel
    updatesClosed,   \* number of close(updates) executed
    errorsClosed,    \* number of close(errors) executed
    nsStore,         \* namespace store: name |-> stored definition
    readOnly,        \* whether the datastore is read-only
    wpc,             \* position of the WriteSchema handler
    nsdefs,          \* the compiled definitions of the call in progress
    idx,             \* loop index into nsdefs
    written,         \* indices of nsdefs persisted by the call in progress
    wresult,         \* what the call returned: [err, at]
    nsAtCall,        \* nsStore as it was when the call began
    calls,           \* number of WriteSchema calls made
    q,               \* the last tuple query run: [filter, revision, result]
    rq,              \* the last reverse query run: [kind, subject, revision, result]
    stagedMap,       \* a stagedChanges map built by direct addChange calls
    nAdd,            \* number of addChange calls made on stagedMap
    prior,           \* records the consumer received from an earlier subscription
    origin,          \* afterRevision of the consumer's first subscription
    resubscribed     \* whether the consumer has subscribed a second time

watchVars == <<bufLen, pc, start, cursor, newRev, staged, emitted, nRead, errs,
               updatesClosed, errorsClosed, ctx>>
storeVars == <<rows, txn>>
schemaVars == <<nsStore, readOnly, wpc, nsdefs, idx, written, wresult, nsAtCall, calls>>
clientVars == <<q, rq, stagedMap, nAdd, prior, origin, resubscribed>>
vars == <<rows, txn, ctx, bufLen, pc, start, cursor, newRev, staged, emitted,
          nRead, errs, updatesClosed, errorsClosed,
          nsStore, readOnly, wpc, nsdefs, idx, written, wresult, nsAtCall, calls,
          q, rq, stagedMap, nAdd, prior, origin, resubscribed>>

----------------------------------------------------------------------------
(* Bounds *)

MaxTxn == 2
MaxRows == 4
MaxBuf == 2
MaxStart == 1
MaxAdd == 4

----------------------------------------------------------------------------
(* Data model *)

liveDeletedTxnID == 0

colNamespace == "namespace"
colObjectID == "object_id"
colRelation == "relation"
colUsersetNamespace == "userset_namespace"
colUsersetObjectID == "userset_object_id"
colUsersetRelation == "userset_relation"
colCreatedTxn == "created_txn"
colDeletedTxn == "deleted_txn"

Tpl(ns, id, rel, sns, sid, srel) ==
    [namespace |-> ns, object_id |-> id, relation |-> rel,
     userset_namespace |-> sns, userset_object_id |-> sid, userset_relation |-> srel]

DocViewer == Tpl("document", "x", "viewer", "user", "alice", "...")
DocEditor == Tpl("document", "x", "editor", "user", "alice", "...")
DocYViewer == Tpl("document", "y", "viewer", "group", "eng", "member")
FolderViewer == Tpl("folder", "y", "viewer", "user", "bob", "...")

WatchTuples == {DocViewer, DocEditor}

\* A stored row: the six tuple columns plus created_txn and deleted_txn.
Row(t, c, d) ==
    [namespace |-> t.namespace, object_id |-> t.object_id, relation |-> t.relation,
     userset_namespace |-> t.userset_namespace,
     userset_object_id |-> t.userset_object_id,
     userset_relation |-> t.userset_relation,
     created_txn |-> c, deleted_txn |-> d]

\* rows.Scan into tpl: the relation tuple carried by a row.
RowTuple(r) ==
    Tpl(r.namespace, r.object_id, r.relation,
        r.userset_namespace, r.userset_object_id, r.userset_relation)

\* tuple.String: the canonical string "ns:id#rel@sns:sid#srel".
TupleString(t) ==
    t.namespace \o ":" \o t.object_id \o "#" \o t.relation \o "@" \o
    t.userset_namespace \o ":" \o t.userset_object_id \o "#" \o t.userset_relation

----------------------------------------------------------------------------
(* squirrel predicates and their evaluation by the storage engine *)

Eq(col, val) == [k |-> "Eq", col |-> col, val |-> val]
Gt(col, val) == [k |-> "Gt", col |-> col, val |-> val]
LtOrEq(col, val) == [k |-> "LtOrEq", col |-> col, val |-> val]
And(parts) == [k |-> "And", parts |-> parts]
Or(parts) == [k |-> "Or", parts |-> parts]

RECURSIVE Sat(_, _)
Sat(r, c) ==
    CASE c.k = "Eq" -> r[c.col] = c.val
      [] c.k = "Gt" -> r[c.col] > c.val
      [] c.k = "LtOrEq" -> r[c.col] <= c.val
      [] c.k = "And" -> \A i \in 1..Len(c.parts) : Sat(r, c.parts[i])
      [] c.k = "Or" -> \E i \in 1..Len(c.parts) : Sat(r, c.parts[i])

\* A SelectBuilder is the sequence of its Where clauses; the engine returns the
\* rows of the table that satisfy all of them.
Select(wheres, table) ==
    {r \in table : \A i \in 1..Len(wheres) : Sat(r, wheres[i])}

----------------------------------------------------------------------------
(* Tuple store writes (write(preconditions, updates), one transaction) *)

Ops == {"CREATE", "TOUCH", "DELETE"}

LiveRows(table, t) ==
    {r \in table : RowTuple(r) = t /\ r.deleted_txn = liveDeletedTxnID}

\* The table after one committed write of `updates` (a set of <<op, tuple>>)
\* as transaction T: DELETE and TOUCH retire the live row, CREATE and TOUCH
\* insert a fresh row.
ApplyWrite(table, updates, T) ==
    LET retire == {u[2] : u \in {v \in updates : v[1] \in {"DELETE", "TOUCH"}}}
        insert == {u[2] : u \in {v \in updates : v[1] \in {"CREATE", "TOUCH"}}}
        kept == {IF RowTuple(r) \in retire /\ r.deleted_txn = liveDeletedTxnID
                 THEN [r EXCEPT !.deleted_txn = T] ELSE r : r \in table}
    IN kept \cup {Row(t, T, liveDeletedTxnID) : t \in insert}

\* A CREATE of a tuple that is live and not retired by the same write violates
\* the uniqueness of live rows and is rejected.
WriteAllowed(table, updates) ==
    \A u \in updates :
        u[1] = "CREATE" =>
            \/ LiveRows(table, u[2]) = {}
            \/ \E v \in updates : v[2] = u[2] /\ v[1] \in {"DELETE", "TOUCH"}

\* The update lists a write is called with: one update, or two updates that
\* touch different tuples or TOUCH and DELETE the same one.
UpdateSets(universe) ==
    LET U == Ops \X universe
    IN {{u} : u \in U} \cup
       {p \in {{u, v} : u \in U, v \in U} :
           \E u, v \in p : /\ u # v
                           /\ \/ u[2] # v[2]
                              \/ {u[1], v[1]} = {"TOUCH", "DELETE"}}

Write(updateSets) ==
    /\ txn < MaxTxn
    /\ \E updates \in updateSets :
        /\ WriteAllowed(rows, updates)
        /\ Cardinality(ApplyWrite(rows, updates, txn + 1)) <= MaxRows
        /\ rows' = ApplyWrite(rows, updates, txn + 1)
        /\ txn' = txn + 1

----------------------------------------------------------------------------
(* Query builder: QueryTuples *)

NoQuery ==
    [filter |-> [ResourceType |-> "", OptionalResourceID |-> "",
                 OptionalResourceRelation |-> ""],
     revision |-> 0, result |-> {}]

QueryableTuples == {DocViewer, DocEditor, DocYViewer, FolderViewer}

\* datastore.TupleQueryResourceFilter
ResourceFilters ==
    [ResourceType : {"document", "folder"},
     OptionalResourceID : {"", "x", "y"},
     OptionalResourceRelation : {"", "viewer", "editor"}]

\* filterToLivingObjects: the rows alive at the revision.
filterToLivingObjects(revision) ==
    <<LtOrEq(colCreatedTxn, revision),
      Or(<<Eq(colDeletedTxn, liveDeletedTxnID), Gt(colDeletedTxn, revision)>>)>>

\* QueryTuples adding a clause for every optional field, empty or not.
QueryTuplesNoWildcard(filter, revision) ==
    filterToLivingObjects(revision)
        \o <<Eq(colNamespace, filter.ResourceType)>>
        \o <<Eq(colObjectID, filter.OptionalResourceID)>>
        \o <<Eq(colRelation, filter.OptionalResourceRelation)>>

\* QueryTuples: the InitialQuery built for a filter and a revision.
QueryTuples(filter, revision) ==
    filterToLivingObjects(revision)
        \o <<Eq(colNamespace, filter.ResourceType)>>
        \o (IF filter.OptionalResourceID # ""
            THEN <<Eq(colObjectID, filter.OptionalResourceID)>> ELSE <<>>)
        \o (IF filter.OptionalResourceRelation # ""
            THEN <<Eq(colRelation, filter.OptionalResourceRelation)>> ELSE <<>>)

\* The subjects a reverse query may name: ObjectAndRelation values.
Subjects ==
    {[namespace |-> "user", object_id |-> "alice", relation |-> "..."],
     [namespace |-> "user", object_id |-> "bob", relation |-> "..."],
     [namespace |-> "group", object_id |-> "eng", relation |-> "member"],
     [namespace |-> "group", object_id |-> "ops", relation |-> "member"]}

ReverseKinds == {"subject", "subjectRelation", "subjectNamespace"}

NoReverse ==
    [kind |-> "", subject |-> [namespace |-> "", object_id |-> "", relation |-> ""],
     revision |-> 0, result |-> {}]

\* reverseQueryBase without the clause for rows that are still live.
reverseQueryBaseNoLive(revision) ==
    <<LtOrEq(colCreatedTxn, revision), Gt(colDeletedTxn, revision)>>

\* reverseQueryBase: the InitialQuery of every reverse query.
reverseQueryBase(revision) ==
    <<LtOrEq(colCreatedTxn, revision),
      Or(<<Eq(colDeletedTxn, liveDeletedTxnID), Gt(colDeletedTxn, revision)>>)>>

ReverseQueryTuplesFromSubject(subject, revision) ==
    reverseQueryBase(revision)
        \o <<Eq(colUsersetNamespace, subject.namespace),
             Eq(colUsersetObjectID, subject.object_id),
             Eq(colUsersetRelation, subject.relation)>>

ReverseQueryTuplesFromSubjectRelation(subjectNamespace, subjectRelation, revision) ==
    reverseQueryBase(revision)
        \o <<Eq(colUsersetNamespace, subjectNamespace),
             Eq(colUsersetRelation, subjectRelation)>>

ReverseQueryTuplesFromSubjectNamespace(subjectNamespace, revision) ==
    reverseQueryBase(revision)
        \o <<Eq(colUsersetNamespace, subjectNamespace)>>

\* The reverse query of one of the three kinds for a subject.
ReverseQuery(kind, subject, revision) ==
    CASE kind = "subject" -> ReverseQueryTuplesFromSubject(subject, revision)
      [] kind = "subjectRelation" ->
            ReverseQueryTuplesFromSubjectRelation(subject.namespace, subject.relation,
                                                  revision)
      [] kind = "subjectNamespace" ->
            ReverseQueryTuplesFromSubjectNamespace(subject.namespace, revision)

----------------------------------------------------------------------------
(* Watch engine: addChange and loadChanges *)

EmptyMap == [x \in {} |-> x]
MapPut(m, k, v) == [x \in DOMAIN m \cup {k} |-> IF x = k THEN v ELSE m[x]]
MapDelete(m, k) == [x \in DOMAIN m \ {k} |-> m[x]]

changeRecord == [tupleTouches |-> EmptyMap, tupleDeletes |-> EmptyMap]

\* addChange without the alreadyTouched test of the DELETE case.
addChangeKeepDelete(changes, revision, tpl, op) ==
    LET revisionChanges ==
            IF revision \in DOMAIN changes THEN changes[revision] ELSE changeRecord
        tplKey == TupleString(tpl)
        updated ==
            IF op = "TOUCH"
            THEN [tupleTouches |-> MapPut(revisionChanges.tupleTouches, tplKey, tpl),
                  tupleDeletes |-> MapDelete(revisionChanges.tupleDeletes, tplKey)]
            ELSE [tupleTouches |-> revisionChanges.tupleTouches,
                  tupleDeletes |-> MapPut(revisionChanges.tupleDeletes, tplKey, tpl)]
    IN MapPut(changes, revision, updated)

\* addChange without the delete(tupleDeletes, tplKey) of the TOUCH case.
addChangeKeepBoth(changes, revision, tpl, op) ==
    LET revisionChanges ==
            IF revision \in DOMAIN changes THEN changes[revision] ELSE changeRecord
        tplKey == TupleString(tpl)
        updated ==
            IF op = "TOUCH"
            THEN [tupleTouches |-> MapPut(revisionChanges.tupleTouches, tplKey, tpl),
                  tupleDeletes |-> revisionChanges.tupleDeletes]
            ELSE IF tplKey \in DOMAIN revisionChanges.tupleTouches
                 THEN revisionChanges
                 ELSE [tupleTouches |-> revisionChanges.tupleTouches,
                       tupleDeletes |-> MapPut(revisionChanges.tupleDeletes, tplKey, tpl)]
    IN MapPut(changes, revision, updated)

addChange(changes, revision, tpl, op) ==
    LET revisionChanges ==
            IF revision \in DOMAIN changes THEN changes[revision] ELSE changeRecord
        tplKey == TupleString(tpl)
        updated ==
            IF op = "TOUCH"
            THEN [tupleTouches |-> MapPut(revisionChanges.tupleTouches, tplKey, tpl),
                  tupleDeletes |-> MapDelete(revisionChanges.tupleDeletes, tplKey)]
            ELSE IF tplKey \in DOMAIN revisionChanges.tupleTouches
                 THEN revisionChanges
                 ELSE [tupleTouches |-> revisionChanges.tupleTouches,
                       tupleDeletes |-> MapPut(revisionChanges.tupleDeletes, tplKey, tpl)]
    IN MapPut(changes, revision, updated)

\* The changed-rows query without its deleted_txn disjunct.
queryChangedCreatedOnly(afterRevision, newRevision) ==
    <<And(<<Gt(colCreatedTxn, afterRevision), LtOrEq(colCreatedTxn, newRevision)>>)>>

\* The predicate of the changed-rows query.
queryChanged(afterRevision, newRevision) ==
    <<Or(<<And(<<Gt(colCreatedTxn, afterRevision), LtOrEq(colCreatedTxn, newRevision)>>),
           And(<<Gt(colDeletedTxn, afterRevision), LtOrEq(colDeletedTxn, newRevision)>>)>>)>>

\* The loop body with inclusive lower bounds (>= afterRevision).
ScanRowInclusive(changes, r, afterRevision, newRevision) ==
    LET tpl == RowTuple(r)
        c1 == IF r.created_txn >= afterRevision /\ r.created_txn <= newRevision
              THEN addChange(changes, r.created_txn, tpl, "TOUCH") ELSE changes
    IN IF r.deleted_txn >= afterRevision /\ r.deleted_txn <= newRevision
       THEN addChange(c1, r.deleted_txn, tpl, "DELETE") ELSE c1

\* The body of the rows.Next() loop for one scanned row.
ScanRow(changes, r, afterRevision, newRevision) ==
    LET tpl == RowTuple(r)
        c1 == IF r.created_txn > afterRevision /\ r.created_txn <= newRevision
              THEN addChange(changes, r.created_txn, tpl, "TOUCH") ELSE changes
    IN IF r.deleted_txn > afterRevision /\ r.deleted_txn <= newRevision
       THEN addChange(c1, r.deleted_txn, tpl, "DELETE") ELSE c1

RECURSIVE ScanRows(_, _, _, _)
ScanRows(order, changes, afterRevision, newRevision) ==
    IF order = <<>> THEN changes
    ELSE ScanRows(Tail(order), ScanRow(changes, Head(order), afterRevision, newRevision),
                  afterRevision, newRevision)

\* Every order in which the storage engine may return a set of rows.
RECURSIVE RowOrders(_)
RowOrders(S) ==
    IF S = {} THEN {<<>>}
    ELSE UNION {{<<r>> \o o : o \in RowOrders(S \ {r})} : r \in S}

\* The revisions in an order the map iteration may give, left unsorted.
RECURSIVE revisionsUnsorted(_)
revisionsUnsorted(S) ==
    IF S = {} THEN <<>>
    ELSE LET m == CHOOSE x \in S : \A y \in S : x >= y
         IN <<m>> \o revisionsUnsorted(S \ {m})

\* sort.Slice(revisionsWithChanges, <)
RECURSIVE revisionsWithChanges(_)
revisionsWithChanges(S) ==
    IF S = {} THEN <<>>
    ELSE LET m == CHOOSE x \in S : \A y \in S : x <= y
         IN <<m>> \o revisionsWithChanges(S \ {m})

\* One RevisionChanges: the TOUCH updates of the record's touches, then the
\* DELETE updates of its deletes.  The order inside Changes is the map
\* iteration order, so Changes is kept as a bag: update |-> number of copies.
RevisionChange(rev, rec) ==
    LET ups == {[operation |-> "TOUCH", tuple |-> rec.tupleTouches[k]] :
                    k \in DOMAIN rec.tupleTouches}
               \cup {[operation |-> "DELETE", tuple |-> rec.tupleDeletes[k]] :
                    k \in DOMAIN rec.tupleDeletes}
        copies(u) ==
            IF u.operation = "TOUCH"
            THEN Cardinality({k \in DOMAIN rec.tupleTouches : rec.tupleTouches[k] = u.tuple})
            ELSE Cardinality({k \in DOMAIN rec.tupleDeletes : rec.tupleDeletes[k] = u.tuple})
    IN [revision |-> rev, changes |-> [u \in ups |-> copies(u)]]

BuildChanges(stagedChanges) ==
    LET revs == revisionsWithChanges(DOMAIN stagedChanges)
    IN [i \in 1..Len(revs) |-> RevisionChange(revs[i], stagedChanges[revs[i]])]

\* The results loadChanges can return for a successful fetch.
loadChangesResults(table, afterRevision, newRevision) ==
    {BuildChanges(ScanRows(order, EmptyMap, afterRevision, newRevision)) :
        order \in RowOrders(Select(queryChanged(afterRevision, newRevision), table))}

----------------------------------------------------------------------------
(* Watch engine: the goroutine of Watch, its consumer and its context *)

WatchCanceledErr == "WatchCanceled"
WatchDisconnectedErr == "WatchDisconnected"
StorageErr == "StorageError"
CtxCanceledErr == "context canceled"
CtxDeadlineErr == "context deadline exceeded"

\* Errors a storage call made with this context can return.
StorageFailures ==
    {StorageErr} \cup (IF ctx = "canceled" THEN {CtxCanceledErr} ELSE {})
                 \cup (IF ctx = "deadline" THEN {CtxDeadlineErr} ELSE {})

\* Lines 46-53 answering WatchCanceled whatever the state of the context.
WatchErrorAlwaysCanceled(err) == WatchCanceledErr

\* Lines 46-53: the error sent when loadChanges fails with err.
WatchError(err) == IF ctx = "canceled" THEN WatchCanceledErr ELSE err

\* errors <- e; return  (the deferred closes run next)
SendErrorAndReturn(e) ==
    /\ Len(errs) < 1
    /\ errs' = Append(errs, e)
    /\ pc' = "closeErrors"

Watch ==
    /\ pc = "idle"
    /\ \E afterRevision \in 0..MaxStart :
        /\ start' = afterRevision
        /\ cursor' = afterRevision
    /\ pc' = "load"
    /\ UNCHANGED <<clientVars, schemaVars, storeVars, ctx, bufLen, newRev, staged, emitted, nRead, errs,
                   updatesClosed, errorsClosed>>

\* loadChanges, line 88-95: loadRevision succeeds.
LoadRevision ==
    /\ pc = "load"
    /\ ctx = "active"
    /\ newRev' = txn
    /\ pc' = IF txn = cursor THEN "sleep" ELSE "query"
    /\ UNCHANGED <<clientVars, schemaVars, storeVars, ctx, bufLen, start, cursor, staged, emitted, nRead, errs,
                   updatesClosed, errorsClosed>>

\* loadRevision's error answered by another round of the loop instead of a
\* send and a return.
LoadRevisionFailRetry ==
    /\ pc = "load"
    /\ \E err \in StorageFailures : pc' = "sleep"
    /\ UNCHANGED <<clientVars, schemaVars, storeVars, ctx, bufLen, start, cursor, newRev, staged,
                   emitted, nRead, errs, updatesClosed, errorsClosed>>

\* loadChanges, line 88-91: loadRevision fails.
LoadRevisionFail ==
    /\ pc = "load"
    /\ \E err \in StorageFailures : SendErrorAndReturn(WatchError(err))
    /\ UNCHANGED <<clientVars, schemaVars, storeVars, ctx, bufLen, start, cursor, newRev, staged, emitted,
                   nRead, updatesClosed, errorsClosed>>

\* loadChanges, line 97-190: the fetch and the scan succeed.
QueryChanged ==
    /\ pc = "query"
    /\ ctx = "active"
    /\ \E changes \in loadChangesResults(rows, cursor, newRev) :
        /\ staged' = changes
        /\ pc' = IF changes = <<>> THEN "sleep" ELSE "emit"
    /\ cursor' = newRev
    /\ UNCHANGED <<clientVars, schemaVars, storeVars, ctx, bufLen, start, newRev, emitted, nRead, errs,
                   updatesClosed, errorsClosed>>

\* loadChanges, line 111-117: Query fails.
QueryError(err) == IF err = CtxCanceledErr THEN WatchCanceledErr ELSE err

\* loadChanges, line 111-117, 144-146, 156-158: the fetch or the scan fails.
QueryChangedFail ==
    /\ pc = "query"
    /\ \E err \in StorageFailures :
        \/ SendErrorAndReturn(WatchError(QueryError(err)))
        \/ SendErrorAndReturn(WatchError(err))
    /\ cursor' = newRev
    /\ UNCHANGED <<clientVars, schemaVars, storeVars, ctx, bufLen, start, newRev, staged, emitted, nRead,
                   updatesClosed, errorsClosed>>

\* The full-channel branch dropping the record and carrying on.
EmitDisconnectedDropping ==
    /\ pc = "emit"
    /\ staged # <<>>
    /\ ~(Len(emitted) - nRead < bufLen)
    /\ staged' = Tail(staged)
    /\ pc' = IF Tail(staged) = <<>> THEN "load" ELSE "emit"
    /\ UNCHANGED <<clientVars, schemaVars, storeVars, ctx, bufLen, start, cursor, newRev, emitted, nRead, errs,
                   updatesClosed, errorsClosed>>

\* Line 56-59: the channel accepts the next staged record.
Emit ==
    /\ pc = "emit"
    /\ staged # <<>>
    /\ Len(emitted) - nRead < bufLen
    /\ emitted' = Append(emitted, Head(staged))
    /\ staged' = Tail(staged)
    /\ pc' = IF Tail(staged) = <<>> THEN "load" ELSE "emit"
    /\ UNCHANGED <<clientVars, schemaVars, storeVars, ctx, bufLen, start, cursor, newRev, nRead, errs,
                   updatesClosed, errorsClosed>>

\* The full-channel branch with an explicit close(updates) before the return.
EmitDisconnectedClosing ==
    /\ pc = "emit"
    /\ staged # <<>>
    /\ ~(Len(emitted) - nRead < bufLen)
    /\ SendErrorAndReturn(WatchDisconnectedErr)
    /\ updatesClosed' = updatesClosed + 1
    /\ UNCHANGED <<clientVars, schemaVars, storeVars, ctx, bufLen, start, cursor, newRev, staged, emitted,
                   nRead, errorsClosed>>

\* Line 59-61: the channel is full.
EmitDisconnected ==
    /\ pc = "emit"
    /\ staged # <<>>
    /\ ~(Len(emitted) - nRead < bufLen)
    /\ SendErrorAndReturn(WatchDisconnectedErr)
    /\ UNCHANGED <<clientVars, schemaVars, storeVars, ctx, bufLen, start, cursor, newRev, staged, emitted,
                   nRead, updatesClosed, errorsClosed>>

\* Line 66-71: the timer fires.
SleepDone ==
    /\ pc = "sleep"
    /\ pc' = "load"
    /\ UNCHANGED <<clientVars, schemaVars, storeVars, ctx, bufLen, start, cursor, newRev, staged, emitted,
                   nRead, errs, updatesClosed, errorsClosed>>

\* The ctx.Done() branch returning without a send on the error channel.
SleepCanceledNoSend ==
    /\ pc = "sleep"
    /\ ctx # "active"
    /\ pc' = "closeErrors"
    /\ UNCHANGED <<clientVars, schemaVars, storeVars, ctx, bufLen, start, cursor, newRev, staged,
                   emitted, nRead, errs, updatesClosed, errorsClosed>>

\* Line 72-74: ctx.Done() is ready.
SleepCanceled ==
    /\ pc = "sleep"
    /\ ctx # "active"
    /\ SendErrorAndReturn(WatchCanceledErr)
    /\ UNCHANGED <<clientVars, schemaVars, storeVars, ctx, bufLen, start, cursor, newRev, staged, emitted,
                   nRead, updatesClosed, errorsClosed>>

\* Line 38: defer close(errors)
CloseErrors ==
    /\ pc = "closeErrors"
    /\ errorsClosed' = errorsClosed + 1
    /\ pc' = "closeUpdates"
    /\ UNCHANGED <<clientVars, schemaVars, storeVars, ctx, bufLen, start, cursor, newRev, staged, emitted,
                   nRead, errs, updatesClosed>>

\* Line 37: defer close(updates)
CloseUpdates ==
    /\ pc = "closeUpdates"
    /\ updatesClosed' = updatesClosed + 1
    /\ pc' = "done"
    /\ UNCHANGED <<clientVars, schemaVars, storeVars, ctx, bufLen, start, cursor, newRev, staged, emitted,
                   nRead, errs, errorsClosed>>

\* The consumer receives the next record of `updates`.
Receive ==
    /\ nRead < Len(emitted)
    /\ nRead' = nRead + 1
    /\ UNCHANGED <<clientVars, schemaVars, storeVars, ctx, bufLen, pc, start, cursor, newRev, staged, emitted,
                   errs, updatesClosed, errorsClosed>>

\* The caller cancels the context.
Cancel ==
    /\ ctx = "active"
    /\ ctx' = "canceled"
    /\ UNCHANGED <<clientVars, schemaVars, storeVars, bufLen, pc, start, cursor, newRev, staged, emitted,
                   nRead, errs, updatesClosed, errorsClosed>>

\* The context's deadline expires.
DeadlineExceeded ==
    /\ ctx = "active"
    /\ ctx' = "deadline"
    /\ UNCHANGED <<clientVars, schemaVars, storeVars, bufLen, pc, start, cursor, newRev, staged, emitted,
                   nRead, errs, updatesClosed, errorsClosed>>

WriteTuples ==
    /\ Write(UpdateSets(WatchTuples))
    /\ UNCHANGED <<clientVars, watchVars, schemaVars>>

StoreInit ==
    /\ rows = {}
    /\ txn = 0

SchemaIdle ==
    /\ nsStore = EmptyMap
    /\ wpc = "idle"
    /\ nsdefs = <<>>
    /\ idx = 0
    /\ written = {}
    /\ wresult = [err |-> "none", at |-> "none"]
    /\ nsAtCall = EmptyMap
    /\ calls = 0

WatchIdle ==
    /\ ctx = "active"
    /\ pc = "idle"
    /\ start = 0
    /\ cursor = 0
    /\ newRev = 0
    /\ staged = <<>>
    /\ emitted = <<>>
    /\ nRead = 0
    /\ errs = <<>>
    /\ updatesClosed = 0
    /\ errorsClosed = 0

ClientIdle ==
    /\ q = NoQuery
    /\ rq = NoReverse
    /\ stagedMap = EmptyMap
    /\ nAdd = 0
    /\ prior = <<>>
    /\ origin = 0
    /\ resubscribed = FALSE

Init ==
    /\ StoreInit
    /\ WatchIdle
    /\ bufLen \in 1..MaxBuf
    /\ SchemaIdle
    /\ readOnly = FALSE
    /\ ClientIdle

Next ==
    \/ WriteTuples
    \/ Watch
    \/ LoadRevision
    \/ LoadRevisionFail
    \/ QueryChanged
    \/ QueryChangedFail
    \/ Emit
    \/ EmitDisconnected
    \/ SleepDone
    \/ SleepCanceled
    \/ CloseErrors
    \/ CloseUpdates
    \/ Receive
    \/ Cancel
    \/ DeadlineExceeded

Spec == Init /\ [][Next]_vars

\* A subscription whose context has no deadline: the caller's cancellation
\* is the only way the context ends.
CancelNext ==
    \/ WriteTuples
    \/ Watch
    \/ LoadRevision
    \/ LoadRevisionFail
    \/ QueryChanged
    \/ QueryChangedFail
    \/ Emit
    \/ EmitDisconnected
    \/ SleepDone
    \/ SleepCanceled
    \/ CloseErrors
    \/ CloseUpdates
    \/ Receive
    \/ Cancel

\* The steps of the goroutine started at line 36 that do not wait for the
\* storage engine to answer with success.
Goroutine ==
    \/ LoadRevisionFail
    \/ QueryChangedFail
    \/ Emit
    \/ EmitDisconnected
    \/ SleepDone
    \/ SleepCanceled
    \/ CloseErrors
    \/ CloseUpdates

\* The Go scheduler runs a goroutine that can take a step, and a storage call
\* returns once its context is done; nothing obliges the storage engine to
\* answer with success, nor the callers, the consumer and the writers to act.
FairSpec == Init /\ [][CancelNext]_vars /\ WF_vars(Goroutine)

----------------------------------------------------------------------------
(* Schema service: WriteSchema *)

MaxCalls == 2

\* A compiled namespace definition: its name, the relations and permissions
\* it declares, and the namespaces its relation types refer to.
Def(name, relations, refs) == [name |-> name, relations |-> relations, refs |-> refs]

Definitions ==
    {Def("user", {}, {}),
     Def("document", {"viewer", "editor"}, {"user"}),
     Def("document", {"editor"}, {"user"}),
     Def("document", {"viewer", "editor"}, {"group"})}

\* The schema texts a caller may send: one that does not compile, and the
\* texts that compile to a list of definitions with distinct names.
SchemaTexts ==
    {[compiles |-> FALSE, defs |-> <<>>]} \cup
    {[compiles |-> TRUE, defs |-> <<>>]} \cup
    {[compiles |-> TRUE, defs |-> <<d>>] : d \in Definitions} \cup
    {[compiles |-> TRUE, defs |-> <<p[1], p[2]>>] :
        p \in {dd \in Definitions \X Definitions : dd[1].name # dd[2].name}}

SchemaTuples == {DocViewer, DocEditor}

CompileErr == "ErrorWithContext"
UnknownNamespaceErr == "UnknownNamespaceError"
SchemaInvariantErr == "SchemaInvariantViolation"
ReadOnlyErr == "ErrReadOnly"

\* rewriteError: the error WriteSchema returns for an internal error.
rewriteError(err) ==
    CASE err = UnknownNamespaceErr -> "NotFound"
      [] err = CompileErr -> "InvalidArgument"
      [] err = ReadOnlyErr -> "ServiceReadOnly"
      [] OTHER -> err

BatchNames(defs) == {defs[i].name : i \in 1..Len(defs)}

\* BuildNamespaceTypeSystemWithFallback and Validate: every namespace a
\* definition refers to is looked up in the batch, then in the store.
TypeSystemError(nsdef, defs, store) ==
    IF \E n \in nsdef.refs : n \notin BatchNames(defs) /\ n \notin DOMAIN store
    THEN UnknownNamespaceErr ELSE "none"

\* SanityCheckExistingRelationships: a live tuple uses a relation of the
\* namespace that the new definition no longer has.
SanityCheckError(nsdef, table) ==
    IF \E r \in table :
        /\ r.deleted_txn = liveDeletedTxnID
        /\ \/ r.namespace = nsdef.name /\ r.relation \notin nsdef.relations
           \/ /\ r.userset_namespace = nsdef.name
              /\ r.userset_relation # "..."
              /\ r.userset_relation \notin nsdef.relations
    THEN SchemaInvariantErr ELSE "none"

\* The handler's control flow with the loops fused: each definition is written
\* right after its own checks.
NextPosFused(pos, i, n) ==
    CASE pos = "typesys" -> [pc |-> "sanity", idx |-> i]
      [] pos = "sanity" -> [pc |-> "write", idx |-> i]
      [] pos = "write" -> IF i < n THEN [pc |-> "typesys", idx |-> i + 1]
                          ELSE [pc |-> "done", idx |-> i]

\* Where the handler goes after the step at position pos succeeds for
\* definition i of n: lines 97-110 check every definition, then lines 113-120
\* write every definition.
NextPos(pos, i, n) ==
    CASE pos = "typesys" -> [pc |-> "sanity", idx |-> i]
      [] pos = "sanity" -> IF i < n THEN [pc |-> "typesys", idx |-> i + 1]
                           ELSE [pc |-> "write", idx |-> 1]
      [] pos = "write" -> IF i < n THEN [pc |-> "write", idx |-> i + 1]
                          ELSE [pc |-> "done", idx |-> i]

Return(err, at) ==
    /\ wpc' = "done"
    /\ wresult' = [err |-> err, at |-> at]

Advance(pos) ==
    LET nxt == NextPos(pos, idx, Len(nsdefs))
    IN /\ wpc' = nxt.pc
       /\ idx' = nxt.idx
       /\ wresult' = wresult

\* Lines 73-95: the call arrives and the schema is compiled.
WriteSchema ==
    /\ wpc = "idle"
    /\ calls < MaxCalls
    /\ calls' = calls + 1
    /\ nsAtCall' = nsStore
    /\ written' = {}
    /\ \E schema \in SchemaTexts :
        IF ~schema.compiles
        THEN /\ Return(rewriteError(CompileErr), "compile")
             /\ nsdefs' = <<>>
             /\ idx' = 0
        ELSE /\ nsdefs' = schema.defs
             /\ idx' = IF schema.defs = <<>> THEN 0 ELSE 1
             /\ wpc' = IF schema.defs = <<>> THEN "done" ELSE "typesys"
             /\ wresult' = [err |-> "none", at |-> "none"]
    /\ UNCHANGED <<clientVars, storeVars, watchVars, nsStore, readOnly>>

\* Lines 98-105: the type system of definition idx is built and validated.
BuildTypeSystem ==
    /\ wpc = "typesys"
    /\ LET err == TypeSystemError(nsdefs[idx], nsdefs, nsStore)
       IN \/ /\ err = "none"
             /\ Advance("typesys")
          \/ /\ err # "none"
             /\ Return(rewriteError(err), "typesys")
             /\ idx' = idx
          \/ /\ Return(rewriteError(StorageErr), "typesys")
             /\ idx' = idx
    /\ UNCHANGED <<clientVars, storeVars, watchVars, nsStore, readOnly, nsdefs, written,
                   nsAtCall, calls>>

\* Lines 107-109: the sanity check of definition idx.
SanityCheck ==
    /\ wpc = "sanity"
    /\ LET err == SanityCheckError(nsdefs[idx], rows)
       IN \/ /\ err = "none"
             /\ Advance("sanity")
          \/ /\ err # "none"
             /\ Return(rewriteError(err), "sanity")
             /\ idx' = idx
          \/ /\ Return(rewriteError(StorageErr), "sanity")
             /\ idx' = idx
    /\ UNCHANGED <<clientVars, storeVars, watchVars, nsStore, readOnly, nsdefs, written,
                   nsAtCall, calls>>

\* Lines 114-119: ds.WriteNamespace of definition idx succeeds.
WriteNamespace ==
    /\ wpc = "write"
    /\ ~readOnly
    /\ nsStore' = MapPut(nsStore, nsdefs[idx].name, nsdefs[idx])
    /\ written' = written \cup {idx}
    /\ Advance("write")
    /\ UNCHANGED <<clientVars, storeVars, watchVars, readOnly, nsdefs, nsAtCall, calls>>

\* Lines 115-117: ds.WriteNamespace of definition idx fails.
WriteNamespaceFail ==
    /\ wpc = "write"
    /\ \E err \in (IF readOnly THEN {ReadOnlyErr} ELSE {StorageErr, CtxCanceledErr}) :
        Return(rewriteError(err), "write")
    /\ UNCHANGED <<clientVars, storeVars, watchVars, nsStore, readOnly, nsdefs, idx, written,
                   nsAtCall, calls>>

\* The caller has its answer; the handler is free for the next call.
WriteSchemaReturn ==
    /\ wpc = "done"
    /\ wpc' = "idle"
    /\ UNCHANGED <<clientVars, storeVars, watchVars, nsStore, readOnly, nsdefs, idx, written,
                   wresult, nsAtCall, calls>>

\* A tuple the write service accepts against the stored definitions.
ValidTuple(t, store) ==
    /\ t.namespace \in DOMAIN store
    /\ t.relation \in store[t.namespace].relations
    /\ t.userset_namespace \in DOMAIN store

\* A tuple write through the service, validated against the definitions
\* stored at the moment it runs.
WriteRelationships ==
    /\ ~readOnly
    /\ Write({us \in UpdateSets(SchemaTuples) :
                \A u \in us : ValidTuple(u[2], nsStore)})
    /\ UNCHANGED <<clientVars, watchVars, schemaVars>>

SchemaInit ==
    /\ StoreInit
    /\ WatchIdle
    /\ bufLen = 1
    /\ SchemaIdle
    /\ readOnly \in BOOLEAN
    /\ ClientIdle

SchemaNext ==
    \/ WriteSchema
    \/ BuildTypeSystem
    \/ SanityCheck
    \/ WriteNamespace
    \/ WriteNamespaceFail
    \/ WriteSchemaReturn
    \/ WriteRelationships

SchemaSpec == SchemaInit /\ [][SchemaNext]_vars

----------------------------------------------------------------------------
(* Queries against the tuple store *)

\* A caller builds the forward query and the storage engine runs it.
RunQueryTuples ==
    /\ q = NoQuery
    /\ \E filter \in ResourceFilters, revision \in 0..MaxTxn :
        q' = [filter |-> filter, revision |-> revision,
              result |-> Select(QueryTuples(filter, revision), rows)]
    /\ UNCHANGED <<storeVars, watchVars, schemaVars, rq, stagedMap, nAdd, prior, origin,
                   resubscribed>>

WriteQueryable ==
    /\ Write(UpdateSets(QueryableTuples))
    /\ UNCHANGED <<clientVars, watchVars, schemaVars>>

QueryInit ==
    /\ StoreInit
    /\ WatchIdle
    /\ bufLen = 1
    /\ SchemaIdle
    /\ readOnly = FALSE
    /\ ClientIdle

QueryNext ==
    \/ WriteQueryable
    \/ RunQueryTuples

QuerySpec == QueryInit /\ [][QueryNext]_vars

\* A caller builds one of the three reverse queries and the storage engine
\* runs it.
RunReverseQuery ==
    /\ rq = NoReverse
    /\ \E kind \in ReverseKinds, subject \in Subjects, revision \in 0..MaxTxn :
        rq' = [kind |-> kind, subject |-> subject, revision |-> revision,
               result |-> Select(ReverseQuery(kind, subject, revision), rows)]
    /\ UNCHANGED <<storeVars, watchVars, schemaVars, q, stagedMap, nAdd, prior, origin,
                   resubscribed>>

ReverseNext ==
    \/ WriteQueryable
    \/ RunReverseQuery

ReverseSpec == QueryInit /\ [][ReverseNext]_vars

----------------------------------------------------------------------------
(* A consumer that subscribes again after its subscription has ended *)

\* The revision the consumer resumes from: that of the last record it
\* received, or the revision it started from when it received none.
ResumeRevision ==
    IF emitted = <<>> THEN start ELSE emitted[Len(emitted)].revision

\* The subscription has ended and the consumer has drained the closed output
\* channel; it calls Watch again, with a fresh context, from ResumeRevision.
Resubscribe ==
    /\ pc = "done"
    /\ nRead = Len(emitted)
    /\ ~resubscribed
    /\ resubscribed' = TRUE
    /\ prior' = emitted
    /\ origin' = start
    /\ start' = ResumeRevision
    /\ cursor' = ResumeRevision
    /\ pc' = "load"
    /\ ctx' = "active"
    /\ newRev' = 0
    /\ staged' = <<>>
    /\ emitted' = <<>>
    /\ nRead' = 0
    /\ errs' = <<>>
    /\ updatesClosed' = 0
    /\ errorsClosed' = 0
    /\ UNCHANGED <<storeVars, schemaVars, bufLen, q, rq, stagedMap, nAdd>>

ResubNext ==
    \/ CancelNext
    \/ Resubscribe

ResubSpec == Init /\ [][ResubNext]_vars

----------------------------------------------------------------------------
(* addChange called directly *)

\* One call of addChange on the stagedChanges map, with the operations
\* loadChanges passes.
AddChangeCall ==
    /\ nAdd < MaxAdd
    /\ nAdd' = nAdd + 1
    /\ \E revision \in 1..MaxTxn, tpl \in WatchTuples, op \in {"TOUCH", "DELETE"} :
        stagedMap' = addChange(stagedMap, revision, tpl, op)
    /\ UNCHANGED <<storeVars, watchVars, schemaVars, q, rq, prior, origin, resubscribed>>

AddChangeNext == AddChangeCall

AddChangeSpec == QueryInit /\ [][AddChangeNext]_vars

----------------------------------------------------------------------------
(* Properties of the watch engine *)

Terminated == pc \in {"closeErrors", "closeUpdates", "done"}
Polling == pc \in {"load", "query", "emit", "sleep"}

Touch(t) == [operation |-> "TOUCH", tuple |-> t]
Delete(t) == [operation |-> "DELETE", tuple |-> t]

\* How many copies of update u a RevisionChanges record carries.
Copies(rc, u) == IF u \in DOMAIN rc.changes THEN rc.changes[u] ELSE 0

\* C1: within one subscription the revisions of the records placed on the
\* output channel are strictly increasing, inside a batch and across polls.
C1_StrictlyIncreasing ==
    \A i, j \in 1..Len(emitted) :
        i < j => emitted[i].revision < emitted[j].revision

C1_Witness ==
    /\ Len(emitted) >= 2
    /\ nRead >= 1

\* Rows that give both a TOUCH and a DELETE for t at R.
BothAt(R, t) ==
    /\ \E r \in rows : RowTuple(r) = t /\ r.created_txn = R
    /\ \E r \in rows : RowTuple(r) = t /\ r.deleted_txn = R

TouchDominates(rc) ==
    \A t \in WatchTuples :
        BothAt(rc.revision, t) =>
            Copies(rc, Touch(t)) = 1 /\ Copies(rc, Delete(t)) = 0

\* C2: when the stored rows give both a TOUCH for t at R (created_txn = R)
\* and a DELETE for t at R (deleted_txn = R), every record staged or emitted
\* for R carries exactly one TOUCH for t and no DELETE for t.
C2_TouchDominance ==
    /\ \A i \in 1..Len(emitted) : TouchDominates(emitted[i])
    /\ \A i \in 1..Len(staged) : TouchDominates(staged[i])

C2_Witness ==
    \E i \in 1..Len(emitted) : \E t \in WatchTuples :
        BothAt(emitted[i].revision, t)

\* The select of line 57-62 takes its default branch.
ChannelFull == ~(Len(emitted) - nRead < bufLen)

C3_State ==
    /\ Len(emitted) - nRead <= bufLen
    /\ (pc = "emit" /\ ChannelFull) => Len(errs) < 1
    /\ (bufLen = 1 /\ nRead = 0 /\ Len(emitted) + Len(staged) >= 2 /\ pc # "emit")
           => (Terminated /\ errs = <<WatchDisconnectedErr>>)

C3_Step ==
    /\ (pc = "emit" /\ ChannelFull /\ pc' # pc)
           => /\ errs' = <<WatchDisconnectedErr>>
              /\ emitted' = emitted
              /\ Terminated'
    /\ Terminated => (emitted' = emitted /\ Terminated')

\* C3: the goroutine never blocks on the output channel: an emission that the
\* channel cannot take at once ends the subscription with WatchDisconnected,
\* and neither that record nor a later one is emitted.  With capacity 1, no
\* read and two staged revisions the subscription ends with WatchDisconnected.
C3_Backpressure == []C3_State /\ [][C3_Step]_vars

C3_Witness ==
    /\ pc = "done"
    /\ errs = <<WatchDisconnectedErr>>
    /\ bufLen = 1
    /\ nRead = 0
    /\ Len(emitted) = 1
    /\ Len(staged) = 1

\* C4: a subscription that ends because its context was cancelled or its
\* deadline expired delivers WatchCanceled, never the raw context error.
C4_AlwaysWatchCanceled ==
    \A i \in 1..Len(errs) : errs[i] \notin {CtxCanceledErr, CtxDeadlineErr}

\* Close counts per position of the goroutine, and no send after a close.
C5_State ==
    /\ updatesClosed <= 1
    /\ errorsClosed <= 1
    /\ pc = "done" => (updatesClosed = 1 /\ errorsClosed = 1)
    /\ (pc = "idle" \/ Polling) => (updatesClosed = 0 /\ errorsClosed = 0)

C5_Step ==
    /\ updatesClosed >= 1 => emitted' = emitted
    /\ errorsClosed >= 1 => errs' = errs

\* C5: on every termination path both channels are closed exactly once,
\* neither is written after it is closed, and neither is closed while the
\* subscription is still polling.
C5_ClosedOnce == []C5_State /\ [][C5_Step]_vars

C5_Witness ==
    /\ pc = "done"
    /\ errs = <<WatchDisconnectedErr>>
    /\ updatesClosed = 1
    /\ errorsClosed = 1

\* What a poll over the window (L, C] must stage, and what must have been emitted.
Carries(recs, R, u) ==
    \E i \in 1..Len(recs) : recs[i].revision = R /\ Copies(recs[i], u) >= 1

InWindow(x, L, C) == L < x /\ x <= C

Recreated(table, r) ==
    \E o \in table : RowTuple(o) = RowTuple(r) /\ o.created_txn = r.deleted_txn

IsEvent(table, R, u) ==
    \E r \in table :
        /\ RowTuple(r) = u.tuple
        /\ IF u.operation = "TOUCH" THEN r.created_txn = R ELSE r.deleted_txn = R

PollComplete(table, L, C, recs) ==
    /\ \A r \in table :
        /\ Carries(recs, r.created_txn, Touch(RowTuple(r)))
              <=> InWindow(r.created_txn, L, C)
        /\ Carries(recs, r.deleted_txn, Delete(RowTuple(r)))
              <=> (InWindow(r.deleted_txn, L, C) /\ ~Recreated(table, r))
    /\ \A i \in 1..Len(recs) :
        /\ InWindow(recs[i].revision, L, C)
        /\ \A u \in DOMAIN recs[i].changes : IsEvent(table, recs[i].revision, u)

C9_Step ==
    (pc = "query" /\ pc' \in {"emit", "sleep"})
        => PollComplete(rows, cursor, cursor', staged')

C9_State ==
    pc \in {"load", "query", "sleep"} =>
        /\ \A r \in rows :
            /\ InWindow(r.created_txn, start, cursor)
                  => Carries(emitted, r.created_txn, Touch(RowTuple(r)))
            /\ (InWindow(r.deleted_txn, start, cursor) /\ ~Recreated(rows, r))
                  => Carries(emitted, r.deleted_txn, Delete(RowTuple(r)))
        /\ \A i \in 1..Len(emitted) :
            /\ emitted[i].revision <= cursor
            /\ \A u \in DOMAIN emitted[i].changes :
                  IsEvent(rows, emitted[i].revision, u)

C14_Step ==
    /\ (pc \in {"load", "query"} /\ Terminated' /\ ctx # "canceled")
           => /\ \E err \in StorageFailures : errs' = <<err>>
              /\ WatchCanceledErr \notin {errs'[i] : i \in 1..Len(errs')}
              /\ emitted' = emitted
              /\ staged' = <<>>
    /\ Terminated => (Terminated' /\ pc' \notin {"load", "query"} /\ cursor' = cursor)

\* C14: when reading the current revision or fetching or scanning the changed
\* rows fails while the context is not cancelled, the subscription puts that
\* storage error itself on the error channel, stages and emits nothing of the
\* failed poll, terminates, and never polls again.
C14_StorageErrorSurfaced == [][C14_Step]_vars

C14_Witness ==
    /\ pc = "done"
    /\ errs = <<StorageErr>>
    /\ ctx = "active"
    /\ Len(emitted) >= 1
    /\ cursor > emitted[Len(emitted)].revision

C18_State ==
    /\ Len(errs) <= 1
    /\ (pc = "idle" \/ Polling) => errs = <<>>
    /\ Terminated => Len(errs) = 1
    /\ (errorsClosed >= 1 \/ updatesClosed >= 1) => Len(errs) = 1

C18_Step ==
    /\ (Polling /\ ~Polling') => (Terminated' /\ Len(errs') = 1)
    /\ errs' # errs =>
        /\ errs = <<>>
        /\ Len(errs') = 1
        /\ Polling
        /\ errorsClosed' = 0
        /\ updatesClosed' = 0

\* C18: every subscription delivers exactly one error value: the goroutine
\* leaves its loop only by a send on the error channel, the channel of
\* capacity 1 is empty whenever that send happens, the send comes before
\* either close, and once a channel is closed exactly one error is there.
C18_ExactlyOneError == []C18_State /\ [][C18_Step]_vars

C18_Witness ==
    /\ pc = "done"
    /\ errs = <<WatchCanceledErr>>
    /\ updatesClosed = 1
    /\ errorsClosed = 1
    /\ emitted = <<>>

\* C19: every emitted record has a revision strictly greater than the start
\* revision S, whatever S is, a start above the store's counter included.
C19_AfterStart ==
    \A i \in 1..Len(emitted) : emitted[i].revision > start

\* Row r is alive at revision R.
AliveAt(r, R) ==
    /\ r.created_txn <= R
    /\ (r.deleted_txn = liveDeletedTxnID \/ r.deleted_txn > R)

\* The tuples alive at revision R.
AliveTuples(table, R) == {RowTuple(r) : r \in {x \in table : AliveAt(x, R)}}

\* One RevisionChanges applied to a set of tuples: TOUCH adds, DELETE removes.
ApplyChanges(S, rc) ==
    (S \cup {t \in WatchTuples : Copies(rc, Touch(t)) >= 1})
        \ {t \in WatchTuples : Copies(rc, Delete(t)) >= 1}

RECURSIVE Replay(_, _)
Replay(S, recs) ==
    IF recs = <<>> THEN S ELSE Replay(ApplyChanges(S, Head(recs)), Tail(recs))

\* C20: once a poll has set the cursor to C and its records are on the
\* channel, the records emitted so far, applied in order to the tuples alive
\* at the start revision S, give exactly the tuples alive at C.
C20_ReplayConsistency ==
    (pc \in {"load", "sleep"} /\ start <= txn)
        => Replay(AliveTuples(rows, start), emitted) = AliveTuples(rows, cursor)

\* C20 for the subscriptions whose cursor is not below their start revision.
C20_ReplayFromReachedStart ==
    (pc \in {"load", "sleep"} /\ start <= cursor)
        => Replay(AliveTuples(rows, start), emitted) = AliveTuples(rows, cursor)

\* The keys of a changeRecord's two maps are disjoint, and each key is the
\* canonical string of the tuple stored under it.
DisjointKeys(rec) ==
    /\ DOMAIN rec.tupleTouches \cap DOMAIN rec.tupleDeletes = {}
    /\ \A k \in DOMAIN rec.tupleTouches : TupleString(rec.tupleTouches[k]) = k
    /\ \A k \in DOMAIN rec.tupleDeletes : TupleString(rec.tupleDeletes[k]) = k

\* stagedChanges after the scan of the rows that a write of <<op, t>> as
\* transaction rev creates in an empty table.
ScanWritten(changes, op, t, rev) ==
    LET created == ApplyWrite({}, {<<op, t>>}, rev)
    IN {ScanRows(order, changes, 0, MaxTxn) : order \in RowOrders(created)}

\* C16: after any sequence of addChange calls the touches and the deletes of
\* every revision have disjoint key sets, so every RevisionChanges built from
\* them carries each tuple in at most one change; the scan of a row created by
\* a CREATE leaves the same map as the scan of a row created by a TOUCH, with
\* the tuple among the touches and not among the deletes.
C16_OneChangePerTuple ==
    /\ \A rev \in DOMAIN stagedMap : DisjointKeys(stagedMap[rev])
    /\ LET recs == BuildChanges(stagedMap)
       IN \A i \in 1..Len(recs) : \A t \in WatchTuples :
            Copies(recs[i], Touch(t)) + Copies(recs[i], Delete(t)) <= 1
    /\ \A t \in WatchTuples, rev \in 1..MaxTxn :
        /\ ScanWritten(stagedMap, "CREATE", t, rev) = ScanWritten(stagedMap, "TOUCH", t, rev)
        /\ \A after \in ScanWritten(stagedMap, "CREATE", t, rev) :
            /\ TupleString(t) \in DOMAIN after[rev].tupleTouches
            /\ TupleString(t) \notin DOMAIN after[rev].tupleDeletes

C16_Witness ==
    /\ nAdd = 3
    /\ DOMAIN stagedMap = {1}
    /\ DOMAIN stagedMap[1].tupleTouches = {TupleString(DocViewer)}
    /\ DOMAIN stagedMap[1].tupleDeletes = {TupleString(DocEditor)}

\* C15: once the caller has cancelled the context of a running subscription,
\* the subscription terminates with both channels closed, wherever the loop
\* is and whether or not the consumer reads; a sleeping goroutine can take
\* the cancellation at once.
C15_CancelTerminates ==
    /\ (ctx = "canceled" /\ pc # "idle")
           ~> (pc = "done" /\ updatesClosed = 1 /\ errorsClosed = 1)
    /\ []((pc = "sleep" /\ ctx = "canceled") => ENABLED SleepCanceled)

C15_Witness ==
    /\ ctx = "canceled"
    /\ pc = "done"
    /\ updatesClosed = 1
    /\ errorsClosed = 1
    /\ nRead = 0
    /\ Len(emitted) >= 1
    /\ errs = <<WatchCanceledErr>>

\* The revisions at which the stored rows record a change.
ChangedRevisions(table) ==
    {r.created_txn : r \in table}
        \cup {r.deleted_txn : r \in {x \in table : x.deleted_txn # liveDeletedTxnID}}

\* What the consumer has been sent over both subscriptions, in order.
Combined == prior \o emitted

\* C17: when a consumer whose subscription from S has ended drains the output
\* channel and subscribes again from the revision of the last record it
\* received (from S when it received none), the records of the first
\* subscription followed by those of the second are in strictly ascending
\* revision order, and once the second has polled up to its cursor they
\* hold every revision after S up to that cursor at which a tuple changed.
C17_ResubscribeExactlyOnce ==
    resubscribed =>
        /\ \A i, j \in 1..Len(Combined) :
            i < j => Combined[i].revision < Combined[j].revision
        /\ pc \in {"load", "query", "sleep"} =>
            \A R \in ChangedRevisions(rows) :
                (origin < R /\ R <= cursor)
                    => \E i \in 1..Len(Combined) : Combined[i].revision = R

C17_Witness ==
    /\ resubscribed
    /\ bufLen = 1
    /\ Len(prior) = 1
    /\ Len(emitted) = 1
    /\ start = prior[1].revision
    /\ emitted[1].revision = start + 1
    /\ pc = "load"

----------------------------------------------------------------------------
(* Properties of the schema service *)

AllWritten == written = 1..Len(nsdefs)

\* C6: write_schema persists a batch atomically: when a call over two or
\* more definitions has returned, every definition of the batch is stored or
\* none is.
C6_AtomicBatch ==
    (wpc = "done" /\ Len(nsdefs) >= 2) => (written = {} \/ AllWritten)

\* C7: when compilation, type-system validation or the sanity check fails for
\* any definition of the batch, the call returns an error, persists no
\* definition of the batch and leaves the namespace store unchanged.
C7_FailedCheckWritesNothing ==
    (wpc = "done" /\ wresult.at \in {"compile", "typesys", "sanity"})
        => /\ wresult.err # "none"
           /\ written = {}
           /\ nsStore = nsAtCall

C7_Witness ==
    /\ wpc = "done"
    /\ wresult = [err |-> SchemaInvariantErr, at |-> "sanity"]
    /\ Len(nsdefs) = 2
    /\ idx = 2
    /\ nsdefs[2] = Def("document", {"editor"}, {"user"})
    /\ \E r \in rows : r.deleted_txn = liveDeletedTxnID /\ RowTuple(r) = DocViewer

\* C8: in every reachable state every live tuple's relation exists in the
\* stored definition of its resource namespace.
C8_NoOrphan ==
    \A r \in rows :
        r.deleted_txn = liveDeletedTxnID =>
            /\ r.namespace \in DOMAIN nsStore
            /\ r.relation \in nsStore[r.namespace].relations

\* C12: every write_schema call made against a read-only store whose schema
\* compiles and passes the type system and the sanity check fails with
\* ServiceReadOnly and persists nothing, a schema that compiles to zero
\* definitions included.
C12_ReadOnlyRejects ==
    (readOnly /\ wpc = "done" /\ wresult.at \notin {"compile", "typesys", "sanity"})
        => /\ wresult.err = "ServiceReadOnly"
           /\ written = {}

\* C13: every error raised while compiling the schema or while building and
\* validating a type system (a failure of the storage engine aside) reaches
\* the caller as InvalidArgument, a reference to a namespace that is neither
\* in the batch nor in the store included.
C13_ValidationIsInvalidArgument ==
    (wpc = "done" /\ wresult.at \in {"compile", "typesys"} /\ wresult.err # StorageErr)
        => wresult.err = "InvalidArgument"

----------------------------------------------------------------------------
(* Properties of the query builder *)

Matches(r, filter) ==
    /\ r.namespace = filter.ResourceType
    /\ (filter.OptionalResourceID # "" => r.object_id = filter.OptionalResourceID)
    /\ (filter.OptionalResourceRelation # ""
            => r.relation = filter.OptionalResourceRelation)

\* The result of a query step against the rows stored when it runs.
C10_Step ==
    q' # q => q'.result = {r \in rows : AliveAt(r, q'.revision) /\ Matches(r, q'.filter)}

\* C10: the forward query of QueryTuples(filter, R) selects exactly the stored
\* rows alive at R whose namespace is filter.ResourceType and whose object id
\* and relation equal the optional fields that are not empty; an empty
\* optional field is a wildcard.
C10_ForwardQuery == [][C10_Step]_vars

C10_Witness ==
    /\ q # NoQuery
    /\ q.filter.OptionalResourceID = ""
    /\ q.filter.OptionalResourceRelation = "viewer"
    /\ \E r \in q.result : r.object_id = "x"
    /\ \E r \in q.result : r.object_id = "y"
    /\ \E r \in rows : /\ r.namespace = q.filter.ResourceType
                        /\ r.relation = "viewer"
                        /\ r \notin q.result

\* The resource filter that names exactly the resource of row r.
RowFilter(r) ==
    [ResourceType |-> r.namespace, OptionalResourceID |-> r.object_id,
     OptionalResourceRelation |-> r.relation]

\* Row r has the subject the reverse query asks for.
SubjectMatches(r, query) ==
    /\ r.userset_namespace = query.subject.namespace
    /\ query.kind = "subject" => r.userset_object_id = query.subject.object_id
    /\ query.kind \in {"subject", "subjectRelation"}
          => r.userset_relation = query.subject.relation

C11_Step ==
    rq' # rq =>
        /\ \A r \in rows :
            SubjectMatches(r, rq') =>
                /\ r \in rq'.result
                      <=> r \in Select(QueryTuples(RowFilter(r), rq'.revision), rows)
                /\ r \in rq'.result <=> AliveAt(r, rq'.revision)
        /\ \A r \in rq'.result : r \in rows /\ SubjectMatches(r, rq')

\* C11: for every revision R and stored row, each of the three reverse
\* queries run at R with the row's subject returns the row exactly when the
\* forward query for the row's resource, relation and R returns it: both use
\* the same alive-at-R predicate, R = created_txn and R = deleted_txn included.
C11_ReverseForwardSymmetry == [][C11_Step]_vars

C11_Witness ==
    /\ rq # NoReverse
    /\ \E r \in rq.result : r.created_txn = rq.revision
    /\ \E r \in rows : SubjectMatches(r, rq) /\ r.deleted_txn = rq.revision
    /\ \E r \in rows : ~SubjectMatches(r, rq) /\ AliveAt(r, rq.revision)

====
